---------------------------- MODULE Spec2Model ----------------------------
(***************************************************************************)
(* The meetup announcer of surreycodecamp-hubot.                           *)
(*                                                                         *)
(* The repository holds two variants of the script:                        *)
(*   "part_000"   src/unnamed/part_000   (command handler, status filter, *)
(*                                      shared announceEvents)             *)
(*   "meetup_js"  src/scripts/meetup.js  (timer only)                      *)
(* The variable script says which one the robot has loaded.                *)
(*                                                                         *)
(* One process talks to three collaborators: the meetup HTTP API (feed),   *)
(* a redis server (store) over one connection whose replies arrive in      *)
(* issue order (pending), and the chat adapter (heard, sent).              *)
(*                                                                         *)
(* Spec is the whole program. LiveSpec is part_000 on the days everything  *)
(* answers, with fairness; FormatSpec runs the command on events at every  *)
(* time of day; HearSpec delivers whatever users type.                     *)
(***************************************************************************)
EXTENDS Integers, Sequences, FiniteSets, TLC

\* ------------------------------------------------------------- bounds
MaxInFlight == 1    \* HTTP requests of one kind awaiting their response
MaxPending  == 2    \* redis commands awaiting their reply
MaxWords    == 4    \* words of a chat message after the robot's name

\* ------------------------------------------------------ JS values
\* A JavaScript value as far as the script tells values apart: its type and,
\* for numbers and decimal strings, the integer it denotes.
Undefined == [t |-> "undefined", v |-> 0]
Null      == [t |-> "null", v |-> 0]
NaN       == [t |-> "NaN", v |-> 0]
Num(n)    == [t |-> "number", v |-> n]
Str(n)    == [t |-> "string", v |-> n]
Obj(n)    == [t |-> "object", v |-> n]   \* the event object whose time is n

\* GreaterThan with the comparison turned around.
GreaterThan_Reversed(x, w) == w.t \in {"number", "string"} /\ x < w.v

\* `x > w` for a number x: w is converted with ToNumber; undefined and objects
\* convert to NaN, and every comparison with NaN is false.
GreaterThan(x, w) == w.t \in {"number", "string"} /\ x > w.v

\* `reply || dflt`: null and undefined are falsy, a non-empty string is truthy
\* (the string "0" included).
OrElse(reply, dflt) == IF reply.t \in {"null", "undefined"} THEN dflt ELSE reply

\* parseInt of a decimal string; of anything else NaN.
ParseInt(x) == IF x.t = "string" THEN Num(x.v) ELSE NaN

\* ------------------------------------------------------------- events
\* The group's events, by name, and the epoch time of each. Every event
\* carries the fields the formatter reads (name, venue, link).
Names == {"A", "B"}

TimeOf(n) == IF n = "A" THEN 1 ELSE 2

\* The events whose status the API may report as something else than upcoming.
PastNames == {"A"}

LinkOf(n) == IF n = "A" THEN "https://www.meetup.com/events/A"
                       ELSE "https://www.meetup.com/events/B"

Event(n, time, status) ==
  [name |-> n, time |-> time, status |-> status, link |-> LinkOf(n)]

Events ==
  {Event(n, TimeOf(n), "upcoming") : n \in Names}
    \cup {Event(n, TimeOf(n), "past") : n \in PastNames}

\* The bodies the API can answer with. The organisers add, remove, cancel and
\* reinstate events between two requests, so each response is any of them:
\* every order is possible, an event is listed once.
Feeds ==
  {f \in UNION {[1..m -> Events] : m \in 0..Cardinality(Names)} :
     \A i, j \in DOMAIN f : i # j => f[i].name # f[j].name}

\* Times of day, as epoch milliseconds of 1 January 1970 UTC: every hour,
\* minutes below and above ten, seconds at both ends of the minute.
ClockHours   == 0..23
ClockMinutes == {0, 5, 9, 10, 30, 59}
ClockSeconds == {0, 59}

ClockTimes ==
  {(h * 3600000) + (m * 60000) + (sec * 1000) :
     h \in ClockHours, m \in ClockMinutes, sec \in ClockSeconds}

\* Bodies of one upcoming event at each of these times.
ClockFeeds == {<<Event("A", t, "upcoming")>> : t \in ClockTimes}

\* What users type in the chat: whether the message starts by addressing
\* the robot by its name, and the words that follow (the whole text when it
\* does not).
Vocabulary ==
  {"show", "SHOW", "upcoming", "Upcoming", "meetups", "MEETUPS", "events"}

Inbound ==
  {[addressed |-> a, words |-> w] :
     a \in BOOLEAN, w \in UNION {[1..n -> Vocabulary] : n \in 3..MaxWords}}

NoMessage == [addressed |-> FALSE, words |-> <<>>]

\* The command as the script's users know it.
Command == [addressed |-> TRUE, words |-> <<"show", "upcoming", "meetups">>]

Scripts == {"part_000", "meetup_js"}

\* Array.prototype.sort of the runtime: insertion sort (V8 up to 6.x, arrays
\* of at most ten elements) or TimSort (V8 7.0 and later).
Engines == {"insertion", "timsort"}

VARIABLES
  script,         \* which variant is loaded
  engine,         \* the runtime's sort
  redisUrl,       \* process.env.REDIS_URL is set
  channel,        \* process.env.HUBOT_MEETUP_NOTIFICATION_CHANNEL is set
  pc,             \* "constructed" | "running"
  redis,          \* this.redis is a client
  timer,          \* setInterval has been called
  lastAnnounced,  \* this.lastAnnounced
  store,          \* the value under events:last-announced: Null or Str(n)
  pending,        \* redis commands sent and not yet answered, oldest first
  cycleReqs,      \* timer-driven HTTP requests in flight
  cmdReqs,        \* command-driven HTTP requests in flight
  fetched,        \* the parsed body of the response the last step handled
  sent,           \* the messages the last step handed to the chat adapter
  lastOp,         \* the last step
  lastCb,         \* the redis command whose reply the last step delivered
  threw,          \* the last step ended in an uncaught exception
  heard,          \* the chat message the last step delivered to the robot
  schedAnnounced, \* names published to the channel by the timer in this process
  afterLoad       \* timer cycles handled since a load that defaulted to 0

vars == <<script, engine, redisUrl, channel, pc, redis, timer, lastAnnounced,
          store, pending, cycleReqs, cmdReqs, fetched, sent, lastOp, lastCb,
          threw, heard, schedAnnounced, afterLoad>>

config == <<script, engine, redisUrl, channel>>

NoCb == [op |-> "none", val |-> 0, by |-> "none", max |-> 0]

\* What the last step did, for the properties to read.
Observe(op, cb, ex) ==
  /\ lastOp' = op
  /\ lastCb' = cb
  /\ threw' = ex

\* A step that handles no HTTP response and sends nothing.
Silent == fetched' = <<>> /\ sent' = <<>>

\* Such a step, when it is not the delivery of a chat message either.
Quiet == Silent /\ heard' = NoMessage

\* ------------------------------------------------------------ sorting
\* The comparator both variants hand to sort: a boolean, which sort converts
\* with ToNumber, so it answers 1 or 0 and never a negative number.
compare(a, b) == IF a.time > b.time THEN 1 ELSE 0

\* Insertion sort: each element moves left past every element the comparator
\* puts after it (order > 0).
RECURSIVE InsertFromRight(_, _, _)
InsertFromRight(s, e, j) ==
  IF j >= 1 /\ compare(s[j], e) > 0
  THEN InsertFromRight(s, e, j - 1)
  ELSE SubSeq(s, 1, j) \o <<e>> \o SubSeq(s, j + 1, Len(s))

RECURSIVE InsertionSort(_)
InsertionSort(s) ==
  IF Len(s) <= 1 THEN s
  ELSE LET front == InsertionSort(SubSeq(s, 1, Len(s) - 1))
       IN  InsertFromRight(front, s[Len(s)], Len(front))

\* TimSort on an array shorter than its minimal run: the leading run is
\* measured (descending when order < 0 for the first pair, and then reversed),
\* and the elements after it are put in place by binary insertion, which moves
\* left only where order < 0.
RECURSIVE RunLength(_, _, _)
RunLength(s, i, descending) ==
  IF i > Len(s) THEN Len(s)
  ELSE LET order == compare(s[i], s[i - 1])
       IN  IF (descending /\ order >= 0) \/ (~descending /\ order < 0)
           THEN i - 1
           ELSE RunLength(s, i + 1, descending)

Reverse(s) == [i \in 1..Len(s) |-> s[Len(s) + 1 - i]]

RECURSIVE BinaryPosition(_, _, _, _)
BinaryPosition(s, pivot, left, right) ==
  IF left >= right THEN left
  ELSE LET mid == left + ((right - left) \div 2)
       IN  IF compare(pivot, s[mid + 1]) < 0
           THEN BinaryPosition(s, pivot, left, mid)
           ELSE BinaryPosition(s, pivot, mid + 1, right)

RECURSIVE BinaryInsertion(_, _)
BinaryInsertion(s, start) ==
  IF start > Len(s) THEN s
  ELSE LET pivot == s[start]
           at    == BinaryPosition(s, pivot, 0, start - 1)
           moved == SubSeq(s, 1, at) \o <<pivot>> \o SubSeq(s, at + 1, start - 1)
                      \o SubSeq(s, start + 1, Len(s))
       IN  BinaryInsertion(moved, start + 1)

TimSort(s) ==
  IF Len(s) < 2 THEN s
  ELSE LET descending == compare(s[2], s[1]) < 0
           run        == RunLength(s, 3, descending)
           head       == SubSeq(s, 1, run)
           ordered    == (IF descending THEN Reverse(head) ELSE head)
                           \o SubSeq(s, run + 1, Len(s))
       IN  BinaryInsertion(ordered, run + 1)

\* events.sort((a, b) => { return a.time > b.time; })
Sort(s) == IF engine = "insertion" THEN InsertionSort(s) ELSE TimSort(s)

\* ------------------------------------------------- fetching, formatting
IsUpcoming(ev) == ev.status = "upcoming"

\* The events getUpcomingMeetups fulfils its promise with.
getUpcomingMeetups(body) == Sort(SelectSeq(body, IsUpcoming))

\* new Date(ms).toISOString(): the UTC date and time of day, to the
\* millisecond.
toISOString(ms) == [date |-> ms \div 86400000, time |-> ms % 86400000]

\* moment(iso): the instant the ISO string denotes.
moment(iso) == (iso.date * 86400000) + iso.time

\* .tz('America/Vancouver'): the zone's wall clock at the instant, in minutes
\* since local midnight. Every instant the integers here can hold lies in
\* January 1970, when the zone is on standard time, eight hours behind UTC.
tz(instant) == ((instant \div 60000) - 480) % 1440

\* moment's format tokens: h is the hour from 1 to 12 and m the minute, both
\* without padding; a is the meridiem in lower case.
Token_h(clock) ==
  LET h == (clock \div 60) % 12 IN ToString(IF h = 0 THEN 12 ELSE h)

Token_m(clock) == ToString(clock % 60)

Token_a(clock) == IF clock < 720 THEN "am" ELSE "pm"

\* .format('h:ma')
format(clock) == Token_h(clock) \o ":" \o Token_m(clock) \o Token_a(clock)

\* The message built from one event, as handed to the sender for room: the
\* text, the When field and the footer (time is the event's, kept for the
\* properties).
Message(ev, room) ==
  [room |-> room, text |-> ev.name, time |-> ev.time,
   when |-> format(tz(moment(toISOString(ev.time)))), footer |-> ev.link]

Messages(events, room) == [i \in 1..Len(events) |-> Message(events[i], room)]

NamesIn(msgs) == {msgs[i].text : i \in DOMAIN msgs}
TimesIn(msgs) == {msgs[i].time : i \in DOMAIN msgs}

MaxOf(S) == IF S = {} THEN 0 ELSE CHOOSE x \in S : \A y \in S : y <= x

\* A SET of the key, as it waits for its reply: the value sent, who issued it
\* and, for the properties, the latest time among the events just published
\* (0 when none was).
SetCmd(val, by, msgs) ==
  [op |-> "set", val |-> val, by |-> by, max |-> MaxOf(TimesIn(msgs))]

GetCmd == [op |-> "get", val |-> 0, by |-> "init", max |-> 0]

\* ---------------------------------------------------------------- Init
\* The robot has required the script and run `new Meetup(robot)`: no client,
\* no timer, this.lastAnnounced never assigned. The key has never been written.
Init ==
  /\ script \in Scripts
  /\ engine \in Engines
  /\ redisUrl \in BOOLEAN
  /\ channel \in BOOLEAN
  /\ pc = "constructed"
  /\ redis = FALSE
  /\ timer = FALSE
  /\ lastAnnounced = Undefined
  /\ store = Null
  /\ pending = <<>>
  /\ cycleReqs = 0
  /\ cmdReqs = 0
  /\ fetched = <<>>
  /\ sent = <<>>
  /\ lastOp = "other"
  /\ lastCb = NoCb
  /\ threw = FALSE
  /\ heard = NoMessage
  /\ schedAnnounced = {}
  /\ afterLoad = "none"

\* ---------------------------------------------------------- initialize
\* Both variants: a client only when REDIS_URL is set and createClient does
\* not throw; the GET of the key only with a client; the timer whenever a
\* channel is configured, with or without a client.
\* StartsTimer with the condition the comment above the load announces
\* ("only do the time-based announcements if redis is connected").
StartsTimer_OnlyWithStore == channel /\ redisUrl

\* `if (NOTIFICATION_CHANNEL) setInterval(...)`
StartsTimer == channel

StartupWith(created) ==
  /\ pc = "constructed"
  /\ redis' = created
  /\ pending' = IF created THEN <<GetCmd>> ELSE <<>>
  /\ timer' = StartsTimer
  /\ pc' = "running"
  /\ Quiet
  /\ Observe("other", NoCb, FALSE)
  /\ UNCHANGED <<config, lastAnnounced, store, cycleReqs, cmdReqs,
                 schedAnnounced, afterLoad>>

\* createClient is attempted only with REDIS_URL set, and may throw.
Startup ==
  \E created \in (IF redisUrl THEN BOOLEAN ELSE {FALSE}) : StartupWith(created)

initialize == script = "part_000" /\ Startup

MeetupJs_initialize == script = "meetup_js" /\ Startup

\* LoadedValue without the `|| '0'` default.
LoadedValue_NoDefault(reply) == ParseInt(reply)

\* The value the GET callback assigns to this.lastAnnounced.
LoadedValue(reply) == ParseInt(OrElse(reply, Str(0)))

MeetupJs_LoadedValue(reply) == OrElse(reply, Num(0))

\* The reply to the GET issued by initialize. On an error the reply is
\* undefined; the error is logged and the assignment still happens.
GetReplyWith(ok) ==
  /\ pc = "running"
  /\ pending # <<>>
  /\ Head(pending).op = "get"
  /\ LET reply == IF ok THEN store ELSE Undefined
     IN  /\ lastAnnounced' = IF script = "part_000"
                             THEN LoadedValue(reply)
                             ELSE MeetupJs_LoadedValue(reply)
         /\ afterLoad' = IF reply.t = "string" THEN "none" ELSE "zero"
         /\ Observe(IF ok THEN "getOk" ELSE "getErr", Head(pending), FALSE)
  /\ pending' = Tail(pending)
  /\ Quiet
  /\ UNCHANGED <<config, pc, redis, timer, store, cycleReqs, cmdReqs,
                 schedAnnounced>>

GetReply == \E ok \in BOOLEAN : GetReplyWith(ok)

getCallback == script = "part_000" /\ GetReply

MeetupJs_getCallback == script = "meetup_js" /\ GetReply

\* ------------------------------------------------------------ the timer
\* setInterval fires: the handler issues the HTTP request and returns.
TimerTick ==
  /\ pc = "running"
  /\ timer
  /\ cycleReqs < MaxInFlight
  /\ cycleReqs' = cycleReqs + 1
  /\ Quiet
  /\ Observe("other", NoCb, FALSE)
  /\ UNCHANGED <<config, pc, redis, timer, lastAnnounced, store, pending,
                 cmdReqs, schedAnnounced, afterLoad>>

CycleCounted ==
  afterLoad' = IF afterLoad = "zero" THEN "first" ELSE "none"

\* WritesWatermark with the length test off by one.
WritesWatermark_OffByOne(events) == redis /\ Len(events) > 1

\* The store write that follows a batch: issued only with a client and a
\* non-empty batch.
WritesWatermark(events) == redis /\ Len(events) > 0

\* announceEvents(events, sender): one message per event through the sender,
\* then the SET of the last event's time.
announceEvents(events, room, by) ==
  /\ sent' = Messages(events, room)
  /\ pending' = IF WritesWatermark(events)
                THEN Append(pending,
                            SetCmd(events[Len(events)].time, by, sent'))
                ELSE pending

\* The continuation of checkForAndAnnounceNewMeetups once the events of a
\* response with this body arrive.
CheckAndAnnounce(body) ==
  /\ script = "part_000"
  /\ pc = "running"
  /\ cycleReqs > 0
  /\ Len(pending) < MaxPending
  /\ LET events      == getUpcomingMeetups(body)
         unannounced == SelectSeq(events,
                          LAMBDA ev : GreaterThan(ev.time, lastAnnounced))
     IN  /\ fetched' = body
         /\ IF Len(unannounced) = 0
            THEN sent' = <<>> /\ pending' = pending
            ELSE announceEvents(unannounced, "#channel", "cycle")
  /\ cycleReqs' = cycleReqs - 1
  /\ heard' = NoMessage
  /\ schedAnnounced' = schedAnnounced \cup NamesIn(sent')
  /\ CycleCounted
  /\ Observe("cycle", NoCb, FALSE)
  /\ UNCHANGED <<config, pc, redis, timer, lastAnnounced, store, cmdReqs>>

checkForAndAnnounceNewMeetups == \E body \in Feeds : CheckAndAnnounce(body)

\* The request callback of scripts/meetup.js. Nothing is filtered by status;
\* the SET follows whatever was published and takes the last element of the
\* parsed body; without a client `this.redis.set` is a TypeError.
_checkForAndAnnounceNewMeetups ==
  /\ script = "meetup_js"
  /\ pc = "running"
  /\ cycleReqs > 0
  /\ Len(pending) < MaxPending
  /\ \E events \in Feeds :
       LET fresh == Sort(SelectSeq(events,
                           LAMBDA ev : GreaterThan(ev.time, lastAnnounced)))
       IN  /\ fetched' = events
           /\ IF Len(events) = 0
              THEN /\ sent' = <<>>
                   /\ pending' = pending
                   /\ Observe("cycle", NoCb, FALSE)
              ELSE /\ sent' = Messages(fresh, "channel")
                   /\ pending' = IF redis
                                 THEN Append(pending,
                                        SetCmd(events[Len(events)].time,
                                               "cycle", sent'))
                                 ELSE pending
                   /\ Observe("cycle", NoCb, ~redis)
  /\ cycleReqs' = cycleReqs - 1
  /\ heard' = NoMessage
  /\ schedAnnounced' = schedAnnounced \cup NamesIn(sent')
  /\ CycleCounted
  /\ UNCHANGED <<config, pc, redis, timer, lastAnnounced, store, cmdReqs>>

\* The request fails (err set, body undefined) or the body is no JSON: in
\* getUpcomingMeetups the promise is rejected with nobody to catch it and
\* JSON.parse throws inside the request callback; nothing else happens.
FetchFails(kind) ==
  /\ pc = "running"
  /\ IF kind = "cycle"
     THEN cycleReqs > 0 /\ cycleReqs' = cycleReqs - 1 /\ cmdReqs' = cmdReqs
     ELSE cmdReqs > 0 /\ cmdReqs' = cmdReqs - 1 /\ cycleReqs' = cycleReqs
  /\ Quiet
  /\ Observe(IF kind = "cycle" THEN "cycleFail" ELSE "cmdFail", NoCb, TRUE)
  /\ UNCHANGED <<config, pc, redis, timer, lastAnnounced, store, pending,
                 schedAnnounced, afterLoad>>

getUpcomingMeetups_fails == script = "part_000" /\ \E kind \in {"cycle", "cmd"} : FetchFails(kind)

MeetupJs_fetchFails == script = "meetup_js" /\ FetchFails("cycle")

\* ---------------------------------------------------------- the command
\* String.prototype.toLowerCase on the words users type.
toLowerCase(w) ==
  CASE w = "SHOW"     -> "show"
    [] w = "Upcoming" -> "upcoming"
    [] w = "MEETUPS"  -> "meetups"
    [] OTHER          -> w

\* /show upcoming meetups/ : the words of the pattern.
Pattern == <<"show", "upcoming", "meetups">>

\* The pattern without the flag i: the words must be spelled as written.
MatchesPattern_CaseSensitive(words) ==
  /\ Len(words) >= Len(Pattern)
  /\ SubSeq(words, 1, Len(Pattern)) = Pattern

\* Whether the pattern, with its flag i, matches at the start of the words.
MatchesPattern(words) ==
  /\ Len(words) >= Len(Pattern)
  /\ [i \in 1..Len(Pattern) |-> toLowerCase(words[i])] = Pattern

\* robot.respond(pattern, handler): the listener calls the handler for a
\* message that addresses the robot by name and goes on with text the
\* pattern matches from its first word; text after the match is allowed.
\* scripts/meetup.js registers no listener.
Responds(msg) ==
  script = "part_000" /\ msg.addressed /\ MatchesPattern(msg.words)

\* The robot receives a chat message; when the listener responds,
\* cmdShowUpcoming issues the request.
Hears(msg) ==
  /\ pc = "running"
  /\ Responds(msg) => cmdReqs < MaxInFlight
  /\ cmdReqs' = IF Responds(msg) THEN cmdReqs + 1 ELSE cmdReqs
  /\ heard' = msg
  /\ Silent
  /\ Observe("other", NoCb, FALSE)
  /\ UNCHANGED <<config, pc, redis, timer, lastAnnounced, store, pending,
                 cycleReqs, schedAnnounced, afterLoad>>

\* A user sends the command.
cmdShowUpcoming == script = "part_000" /\ Hears(Command)

\* Its continuation on a response with this body: every fetched event goes
\* to announceEvents with resp.send.
ShowUpcoming(body) ==
  /\ script = "part_000"
  /\ pc = "running"
  /\ cmdReqs > 0
  /\ Len(pending) < MaxPending
  /\ fetched' = body
  /\ announceEvents(getUpcomingMeetups(body), "reply", "cmd")
  /\ cmdReqs' = cmdReqs - 1
  /\ heard' = NoMessage
  /\ Observe("cmd", NoCb, FALSE)
  /\ UNCHANGED <<config, pc, redis, timer, lastAnnounced, store, cycleReqs,
                 schedAnnounced, afterLoad>>

cmdShowUpcoming_then == \E body \in Feeds : ShowUpcoming(body)

\* ------------------------------------------------------- the SET reply
\* announceEvents' callback: `this.hubot.error(err)` registers err as an error
\* handler and returns; the assignment follows with or without an error.
SetReply(ok) ==
  /\ script = "part_000"
  /\ pc = "running"
  /\ pending # <<>>
  /\ Head(pending).op = "set"
  /\ store' = IF ok THEN Str(Head(pending).val) ELSE store
  /\ Observe(IF ok THEN "setOk" ELSE "setErr", Head(pending), FALSE)
  /\ lastAnnounced' = Num(Head(pending).val)
  /\ pending' = Tail(pending)
  /\ Quiet
  /\ UNCHANGED <<config, pc, redis, timer, cycleReqs, cmdReqs,
                 schedAnnounced, afterLoad>>

setCallback == \E ok \in BOOLEAN : SetReply(ok)

\* The callback of scripts/meetup.js: on an error `this.hubor` is undefined
\* and reading its property throws before the assignment; otherwise the
\* assignment stores the event object, not its time.
MeetupJs_setCallback ==
  /\ script = "meetup_js"
  /\ pc = "running"
  /\ pending # <<>>
  /\ Head(pending).op = "set"
  /\ \E ok \in BOOLEAN :
       /\ store' = IF ok THEN Str(Head(pending).val) ELSE store
       /\ lastAnnounced' = IF ok THEN Obj(Head(pending).val) ELSE lastAnnounced
       /\ Observe(IF ok THEN "setOk" ELSE "setErr", Head(pending), ~ok)
  /\ pending' = Tail(pending)
  /\ Quiet
  /\ UNCHANGED <<config, pc, redis, timer, cycleReqs, cmdReqs,
                 schedAnnounced, afterLoad>>

\* -------------------------------------------------------- the restart
\* The store after the server has executed the first k commands of q.
RECURSIVE Executed(_, _, _)
Executed(value, q, k) ==
  IF k = 0 THEN value
  ELSE Executed(IF Head(q).op = "set" THEN Str(Head(q).val) ELSE value,
                Tail(q), k - 1)

\* The process restarts (deployment, config change, crash): everything in
\* memory is lost and the script is constructed again. Of the commands in
\* flight the server has executed some prefix.
Restart ==
  /\ pc = "running"
  /\ \E k \in 0..Len(pending) : store' = Executed(store, pending, k)
  /\ pc' = "constructed"
  /\ redis' = FALSE
  /\ timer' = FALSE
  /\ lastAnnounced' = Undefined
  /\ pending' = <<>>
  /\ cycleReqs' = 0
  /\ cmdReqs' = 0
  /\ Quiet
  /\ schedAnnounced' = {}
  /\ afterLoad' = "none"
  /\ Observe("other", NoCb, FALSE)
  /\ UNCHANGED <<config>>

Next ==
  \/ initialize
  \/ MeetupJs_initialize
  \/ getCallback
  \/ MeetupJs_getCallback
  \/ TimerTick
  \/ checkForAndAnnounceNewMeetups
  \/ _checkForAndAnnounceNewMeetups
  \/ getUpcomingMeetups_fails
  \/ MeetupJs_fetchFails
  \/ cmdShowUpcoming
  \/ cmdShowUpcoming_then
  \/ setCallback
  \/ MeetupJs_setCallback
  \/ Restart

Spec == Init /\ [][Next]_vars

\* ----------------------------------------------------- the good days
\* part_000 with a store that is reachable and answers every command, a
\* channel, an API that answers every request, and an upcoming event B that
\* stays in the feed. The timer fires again and again, and every request and
\* every store command gets its answer; users send commands as they please.
StayingFeeds ==
  {f \in Feeds : \E i \in DOMAIN f : f[i].name = "B" /\ IsUpcoming(f[i])}

LiveInit == Init /\ script = "part_000" /\ redisUrl /\ channel

Live_initialize == script = "part_000" /\ StartupWith(TRUE)

Live_getCallback == GetReplyWith(TRUE)

Live_checkForAndAnnounceNewMeetups ==
  \E body \in StayingFeeds : CheckAndAnnounce(body)

Live_cmdShowUpcoming_then == \E body \in StayingFeeds : ShowUpcoming(body)

Live_setCallback == SetReply(TRUE)

LiveNext ==
  \/ Live_initialize
  \/ Live_getCallback
  \/ TimerTick
  \/ Live_checkForAndAnnounceNewMeetups
  \/ cmdShowUpcoming
  \/ Live_cmdShowUpcoming_then
  \/ Live_setCallback

LiveSpec ==
  /\ LiveInit
  /\ [][LiveNext]_vars
  /\ WF_vars(Live_initialize)
  /\ WF_vars(Live_getCallback)
  /\ WF_vars(Live_setCallback)
  /\ SF_vars(TimerTick)
  /\ SF_vars(Live_checkForAndAnnounceNewMeetups)
  /\ SF_vars(Live_cmdShowUpcoming_then)

\* ------------------------------------------------------ the formatter
\* The command of part_000, run without a store and without a channel, on
\* events at every time of day of ClockTimes.
FormatInit == Init /\ script = "part_000" /\ ~redisUrl /\ ~channel

cmdShowUpcoming_formats == \E body \in ClockFeeds : ShowUpcoming(body)

FormatNext ==
  \/ initialize
  \/ cmdShowUpcoming
  \/ cmdShowUpcoming_formats

FormatSpec == FormatInit /\ [][FormatNext]_vars

\* ------------------------------------------------------------ the chat
\* Either variant, run without a store and without a channel, and the first
\* chat message it receives, whatever its users type. The listener keeps
\* nothing from one message to the next.
HearInit == Init /\ ~redisUrl /\ ~channel

receive == heard = NoMessage /\ \E msg \in Inbound : Hears(msg)

HearNext ==
  \/ initialize
  \/ MeetupJs_initialize
  \/ receive

HearSpec == HearInit /\ [][HearNext]_vars

\* ======================================================== properties
IsNumeric(w) == w.t \in {"number", "string"}

UpcomingIn(body) == {body[i] : i \in {j \in DOMAIN body : IsUpcoming(body[j])}}

\* The events of S in ascending order of time.
RECURSIVE Ascending(_)
Ascending(S) ==
  IF S = {} THEN <<>>
  ELSE LET first == CHOOSE e \in S : \A o \in S : e.time <= o.time
       IN  <<first>> \o Ascending(S \ {first})

TextsOf(msgs) == [i \in DOMAIN msgs |-> msgs[i].text]
NamesOf(events) == [i \in DOMAIN events |-> events[i].name]

\* The reply about to be delivered answers a SET issued by `by`.
Answers(by) ==
  /\ pc = "running"
  /\ pending # <<>>
  /\ Head(pending).op = "set"
  /\ Head(pending).by = by
  /\ lastOp' \in {"setOk", "setErr"}

\* C1 (as claimed): the on-demand command, run to completion with the store
\* callback it triggers, leaves the persisted and the in-memory watermark as
\* they were.
C1_CommandNeverMutatesWatermark ==
  [][Answers("cmd") => lastAnnounced' = lastAnnounced /\ store' = store]_vars

\* C1 (amended): the command handler itself changes neither watermark, but
\* with a store client and at least one upcoming event it issues a SET of the
\* time of the last event it published; the callback of that SET makes the
\* in-memory watermark that time, error or not, and a successful write makes
\* the persisted value that time. Without a client or without an upcoming
\* event the command issues no write.
C1_CommandWritesLastPublished ==
  [][/\ lastOp' = "cmd" =>
          /\ lastAnnounced' = lastAnnounced
          /\ store' = store
          /\ pending' = IF redis /\ sent' # <<>>
                        THEN Append(pending,
                               [op |-> "set", val |-> sent'[Len(sent')].time,
                                by |-> "cmd", max |-> MaxOf(TimesIn(sent'))])
                        ELSE pending
     /\ Answers("cmd") =>
          /\ lastAnnounced' = Num(Head(pending).val)
          /\ store' = IF lastOp' = "setOk" THEN Str(Head(pending).val) ELSE store
    ]_vars

\* C1 witness: the callback of a command's SET has run and both watermarks
\* hold the time the command wrote.
C1_Witness ==
  /\ lastOp = "setOk"
  /\ lastCb.by = "cmd"
  /\ lastCb.val = 2
  /\ lastAnnounced = Num(2)
  /\ store = Str(2)

\* C2: a scheduled cycle that filters against watermark T publishes exactly
\* the fetched upcoming events with time > T, one message each, in ascending
\* order of time.
C2_ScheduledPublishesNewAscending ==
  (lastOp = "cycle" /\ IsNumeric(lastAnnounced)) =>
    TextsOf(sent) =
      NamesOf(Ascending({ev \in UpcomingIn(fetched) : ev.time > lastAnnounced.v}))

\* C3: after a scheduled cycle that announced something and whose store write
\* succeeded, the persisted and the in-memory watermark are the integer
\* maximum of the times announced in that cycle.
C3_WatermarkIsMaxAnnounced ==
  (lastOp = "setOk" /\ lastCb.by = "cycle" /\ lastCb.max > 0) =>
    store = Str(lastCb.max) /\ lastAnnounced = Num(lastCb.max)

\* C4: a scheduled cycle none of whose fetched events has time > watermark
\* sends nothing, issues no SET and leaves both watermarks alone.
C4_EmptySubsetNoEffect ==
  [][(/\ lastOp' = "cycle"
      /\ IsNumeric(lastAnnounced)
      /\ \A i \in DOMAIN fetched' : ~(fetched'[i].time > lastAnnounced.v))
     => /\ sent' = <<>>
        /\ pending' = pending
        /\ lastAnnounced' = lastAnnounced
        /\ store' = store]_vars

\* C5: within one process run the timer never publishes an event to the
\* channel that an earlier timer cycle of that run has published (stated for
\* cycles that start with no store reply outstanding).
C5_NoScheduledReannounce ==
  [][(lastOp' = "cycle" /\ pending = <<>>)
     => NamesIn(sent') \cap schedAnnounced = {}]_vars

\* C6: every write to the watermark, in memory or persisted, stores a value
\* greater than or equal to the one it replaces.
C6_WatermarkMonotonic ==
  [][/\ (pc' = "running" /\ IsNumeric(lastAnnounced) /\ IsNumeric(lastAnnounced'))
          => lastAnnounced'.v >= lastAnnounced.v
     /\ (store.t = "string" /\ store'.t = "string") => store'.v >= store.v]_vars

\* C7: without a store client the timer is not started or its cycles fetch
\* nothing, send nothing and call no store; no cycle raises an exception; the
\* command still publishes every fetched upcoming event.
C7_NoStoreNoCycles ==
  (pc = "running" /\ ~redis) =>
    /\ ~timer \/ cycleReqs = 0
    /\ lastOp \in {"cycle", "cycleFail"} => sent = <<>> /\ pending = <<>> /\ ~threw
    /\ lastOp = "cmd" =>
         /\ Len(sent) = Cardinality(UpcomingIn(fetched))
         /\ NamesIn(sent) = {ev.name : ev \in UpcomingIn(fetched)}

\* C8: the command publishes every fetched upcoming event to the requester,
\* one message each, in ascending order of time, whatever the watermark.
C8_CommandPublishesAllAscending ==
  lastOp = "cmd" =>
    /\ TextsOf(sent) = NamesOf(Ascending(UpcomingIn(fetched)))
    /\ \A i \in DOMAIN sent : sent[i].room = "reply"

\* C9: when the SET that follows a scheduled batch fails, the in-memory
\* watermark is advanced all the same to the latest time of the batch.
C9_FailedSaveStillAdvances ==
  (lastOp = "setErr" /\ lastCb.by = "cycle" /\ lastCb.max > 0) =>
    lastAnnounced = Num(lastCb.max)

LoadDefaulted ==
  (lastOp = "getErr" \/ (lastOp = "getOk" /\ store = Null)) =>
    lastAnnounced = Num(0)

AllUpcomingPublished ==
  \A ev \in UpcomingIn(fetched) : ev.time > 0 => ev.name \in NamesIn(sent)

\* C10 (as claimed): a load that fails or finds no key makes the in-memory
\* watermark the integer 0, so the first timer cycle handled after that load
\* publishes every fetched upcoming event with time > 0.
C10_FirstCycleAfterLoadPublishesAll ==
  /\ LoadDefaulted
  /\ (lastOp = "cycle" /\ afterLoad = "first") => AllUpcomingPublished

\* C10 (amended): a load that fails or finds no key makes the in-memory
\* watermark the integer 0, and the first timer cycle handled after that load
\* publishes every fetched upcoming event with time > 0 provided the
\* in-memory watermark is still 0 when its response is handled.
C10_FirstCycleAtZeroPublishesAll ==
  /\ LoadDefaulted
  /\ (lastOp = "cycle" /\ afterLoad = "first" /\ lastAnnounced = Num(0))
       => AllUpcomingPublished

\* C10 witness: the first timer cycle after a defaulted load has published
\* both events of a two-event response.
C10_Witness ==
  /\ lastOp = "cycle"
  /\ afterLoad = "first"
  /\ lastAnnounced = Num(0)
  /\ Len(fetched) = 2
  /\ Len(sent) = 2

\* C11 (as claimed): a fetch failure in a scheduled cycle sends nothing,
\* issues no store write, leaves both watermarks alone, raises no uncaught
\* error and leaves the timer running.
C11_FetchFailureAbortsQuietly ==
  [][lastOp' = "cycleFail" =>
       /\ sent' = <<>>
       /\ pending' = pending
       /\ lastAnnounced' = lastAnnounced
       /\ store' = store
       /\ timer' = timer
       /\ ~threw']_vars

\* C12 (as claimed): a command whose fetch fails answers the requester with
\* exactly one message.
C12_CommandFailureAnswered ==
  lastOp = "cmdFail" => Len(sent) = 1 /\ sent[1].room = "reply"

TwoDigits(n) == IF n < 10 THEN "0" \o ToString(n) ELSE ToString(n)

ClockText(ms) ==
  LET local  == ms - (8 * 3600000)
      hour   == (local \div 3600000) % 24
      minute == (local \div 60000) % 60
      hour12 == IF hour % 12 = 0 THEN 12 ELSE hour % 12
  IN  ToString(hour12) \o ":" \o TwoDigits(minute)
        \o (IF hour < 12 THEN "am" ELSE "pm")

\* C14 (as claimed): the message built from an event has the event's name as
\* text, its link as footer and, as When, its time in the target zone as
\* hour, colon, two-digit minute and am or pm.
C14_FormatRoundTrip ==
  (lastOp = "cmd" /\ Len(fetched) = 1 /\ IsUpcoming(fetched[1])) =>
    /\ Len(sent) = 1
    /\ sent[1].text = fetched[1].name
    /\ sent[1].footer = fetched[1].link
    /\ sent[1].when = ClockText(fetched[1].time)

\* The spellings of a word in any letter case.
Spellings(word) ==
  CASE word = "show"     -> {"show", "SHOW"}
    [] word = "upcoming" -> {"upcoming", "Upcoming"}
    [] word = "meetups"  -> {"meetups", "MEETUPS"}
    [] OTHER             -> {word}

\* The words hold the phrase, in any letter case, from position at on.
PhraseAt(words, phrase, at) ==
  /\ at + Len(phrase) - 1 <= Len(words)
  /\ \A i \in 1..Len(phrase) : words[at + i - 1] \in Spellings(phrase[i])

Contains(words, phrase) == \E at \in 1..Len(words) : PhraseAt(words, phrase, at)

\* The last step delivered a chat message and the command handler ran.
Triggered == cmdReqs' = cmdReqs + 1

\* C15 (as claimed): in part_000 a message directed at the robot that
\* contains the phrase "show upcoming events", in any letter case, triggers
\* the command handler.
C15_EventsPhraseTriggers ==
  [][(/\ script = "part_000"
      /\ heard' # NoMessage
      /\ heard'.addressed
      /\ Contains(heard'.words, <<"show", "upcoming", "events">>))
     => Triggered]_vars

\* C15 (amended): the phrase is "show upcoming meetups". In part_000 a
\* message triggers the command handler exactly when it addresses the robot
\* and the phrase, in any letter case, follows the address directly; a
\* message with "show upcoming events" in that place triggers nothing, and
\* scripts/meetup.js has no command.
C15_MeetupsPhraseTriggers ==
  [][heard' # NoMessage =>
       /\ Triggered <=>
            /\ script = "part_000"
            /\ heard'.addressed
            /\ PhraseAt(heard'.words, <<"show", "upcoming", "meetups">>, 1)
       /\ ~Triggered => cmdReqs' = cmdReqs]_vars

\* C15 witness: the command typed in another letter case has reached the
\* handler, which has issued its request.
C15_Witness ==
  /\ heard = [addressed |-> TRUE, words |-> <<"SHOW", "Upcoming", "MEETUPS">>]
  /\ cmdReqs = 1

\* The invocations between the start of their fetch and the end of their
\* last callback: requests in flight and store writes awaiting their reply.
InProgress ==
  cycleReqs + cmdReqs
    + Cardinality({i \in DOMAIN pending : pending[i].op = "set"})

\* C16 (as claimed): a timer tick or a command is processed only when no
\* other invocation is in progress, so a scheduled cycle never filters while
\* the store write of another invocation still awaits its callback.
C16_InvocationsRunToCompletion ==
  [][/\ (cycleReqs' + cmdReqs' > cycleReqs + cmdReqs) => InProgress = 0
     /\ lastOp' = "cycle" => \A i \in DOMAIN pending : pending[i].op # "set"
    ]_vars

\* C17 (as claimed): on the good days the upcoming event that stays in the
\* feed is eventually published to the channel by a scheduled cycle,
\* whatever commands come in between.
C17_EventuallyAnnouncedByTimer == <>("B" \in schedAnnounced)

\* C17 (amended): on the good days the upcoming event that stays in the
\* feed is eventually published, to the channel by a scheduled cycle or to
\* a requester by a command.
C17_EventuallyPublished ==
  <>(\/ "B" \in schedAnnounced
     \/ lastOp = "cmd" /\ "B" \in NamesIn(sent))

\* C17 witness: a scheduled cycle has just published the event to the
\* channel after a command had listed the other one.
C17_Witness ==
  /\ lastOp = "cycle"
  /\ "B" \in NamesIn(sent)
  /\ lastAnnounced = Num(1)
  /\ "B" \in schedAnnounced

\* C18 (as claimed): a scheduled cycle whose response is handled while the
\* in-memory watermark has never been assigned publishes nothing, issues no
\* store write and raises no error.
C18_UnsetWatermarkCycleIsInert ==
  [][(lastOp' = "cycle" /\ lastAnnounced = Undefined)
     => sent' = <<>> /\ pending' = pending /\ ~threw']_vars

\* The integer the store holds under the key, 0 when the key is absent.
Persisted == IF store = Null THEN 0 ELSE store.v

\* C19 (as claimed): when a store command has just been answered with
\* success and no other awaits its reply, the in-memory watermark is the
\* integer the store holds.
C19_CacheAgreesWithStore ==
  (pc = "running" /\ pending = <<>> /\ lastOp \in {"getOk", "setOk"})
    => lastAnnounced = Num(Persisted)

==========================================================================
